---- MODULE Spec2Model ----
(***************************************************************************)
(* Model of the WebGLShaderEditor component                                *)
(* (src/src/components/WebGLShaderEditor.tsx).                             *)
(*                                                                         *)
(* A shader text is a sequence of tokens, each standing for a chunk of     *)
(* source text:                                                            *)
(*   "P"  a main() writing gl_Position from attribute a_position           *)
(*   "C"  a main() writing gl_FragColor                                    *)
(*   "T"  declaration and use of the uniform u_time                        *)
(*   "Y"  a varying read by the fragment stage                             *)
(*   "X"  a syntax error                                                   *)
(*   "B"  the character U+FEFF                                             *)
(*   "S"  a lone surrogate code unit                                       *)
(*   "R"  the character U+FFFD                                             *)
(*   "Z"  (files only) a byte sequence that is not valid UTF-8             *)
(* Times are in milliseconds; the time uniform receives ms * 0.001, an     *)
(* order-preserving scaling that is kept as the ms value here.             *)
(***************************************************************************)
EXTENDS Integers, Sequences, FiniteSets, Bags, TLC

\* ---------------------------------------------------------------- bounds
MaxShaders == 8      \* rebuilds stop once this many shader objects are live
MaxClock   == 2      \* the wall clock runs from 0 to MaxClock
MaxDim     == 2      \* displayed width and height range over 1..MaxDim
MaxReads   == 2      \* file reads in flight at the same time

\* ------------------------------------------------------- texts and files
DefaultVertex   == <<"P">>
DefaultFragment == <<"T", "C">>

\* what the user types or has in a file
EditTexts ==
  { <<>>, <<"P">>, <<"T", "C">>, <<"C">>, <<"X">>, <<"Y", "C">>,
    <<"B", "C">>, <<"S">> }

RECURSIVE MapSeq(_, _)
MapSeq(s, f) ==
  IF s = <<>> THEN <<>> ELSE <<f[Head(s)]>> \o MapSeq(Tail(s), f)

Tokens == {"P", "C", "T", "Y", "X", "B", "S", "R", "Z"}

\* new Blob([shaderCode]): the string is converted to UTF-8; a lone
\* surrogate cannot be encoded and becomes U+FFFD
BlobBytes(shaderCode) ==
  MapSeq(shaderCode, [c \in Tokens |-> IF c = "S" THEN "R" ELSE c])

\* FileReader.readAsText: UTF-8 decode; a leading byte order mark is
\* dropped, undecodable bytes become U+FFFD
ReadAsText(bytes) ==
  LET body == IF bytes # <<>> /\ Head(bytes) = "B" THEN Tail(bytes) ELSE bytes
  IN  MapSeq(body, [c \in Tokens |-> IF c = "Z" THEN "R" ELSE c])

\* files of the user's disk that no saveShader wrote
ForeignFiles == { <<"Z">> }

\* --------------------------------------------------------- the GL driver
Has(s, c) == \E i \in 1..Len(s) : s[i] = c

LegalChars(s) == ~Has(s, "X") /\ ~Has(s, "B") /\ ~Has(s, "S") /\ ~Has(s, "R")

\* gl.getShaderParameter(shader, gl.COMPILE_STATUS)
CompileStatus(type, source) ==
  /\ LegalChars(source)
  /\ IF type = "VERTEX"
       THEN Has(source, "P") /\ ~Has(source, "C")
       ELSE Has(source, "C") /\ ~Has(source, "P")

\* gl.getProgramParameter(program, gl.LINK_STATUS)
LinkStatus(vSource, fSource) == Has(fSource, "Y") => Has(vSource, "Y")

\* gl.getUniformLocation(program, "u_time") # null
HasUTime(vSource, fSource) == Has(vSource, "T") \/ Has(fSource, "T")

\* what the driver answers to the allocation calls of one build
Driver == {"ok", "vsNull", "fsNull", "progNull"}

\* ------------------------------------------------------------------ state
VARIABLES
  phase,             \* "init" before the effects ran, "mounted", "unmounted"
  alerted,           \* alert("WebGL non supporte") was shown
  vertexShader,      \* useState
  fragmentShader,    \* useState
  glRef,             \* glRef.current # null
  programRef,        \* programRef.current: [id, vs, fs], id = 0 is null
  uTimeLocationRef,  \* id of the program the location belongs to, 0 is null
  startTimeRef,      \* startTimeRef.current
  canvas,            \* [width, height] of the canvas element
  raf,               \* callbacks scheduled by requestAnimationFrame
  glObjects,         \* the context: shaders, programs, buffers not deleted; made =
                     \* programs created so far; used = program of gl.useProgram
  now,               \* Date.now()
  lastTime,          \* value of the last gl.uniform1f call, -1 before the first
  download,          \* the file last written by saveShader: [name, text]
  reads,             \* FileReaders in flight: bag of [slot, name, bytes, text]
  io,                \* the file event of the last step: [op, slot, name, text,
                     \* result, wrote]
  log                \* the GL work of the last step: sequence of [op, prog, ok, n, pre, post]

vars == << phase, alerted, vertexShader, fragmentShader, glRef, programRef,
           uTimeLocationRef, startTimeRef, canvas, raf, glObjects, now,
           lastTime, download, reads, io, log >>

NullProgram == [id |-> 0, vs |-> <<>>, fs |-> <<>>]
NoFile == [name |-> "none", text |-> <<>>]
NoIo ==
  [op |-> "none", slot |-> "none", name |-> "none", text |-> <<>>,
   result |-> <<>>, wrote |-> FALSE]
Slots == {"vertex", "fragment"}
FileName(slot) == IF slot = "vertex" THEN "vertexShader.glsl" ELSE "fragmentShader.glsl"

Entry(op, prog, ok, n, pre, post) ==
  [op |-> op, prog |-> prog, ok |-> ok, n |-> n, pre |-> pre, post |-> post]

\* the mutable cells the functions of the component work on
Cells ==
  [ glRef |-> glRef, programRef |-> programRef,
    uTimeLocationRef |-> uTimeLocationRef, startTimeRef |-> startTimeRef,
    canvas |-> canvas, raf |-> raf, glObjects |-> glObjects,
    lastTime |-> lastTime, alerted |-> alerted, log |-> <<>> ]

Live(g) == g.glObjects.shaders + g.glObjects.programs + g.glObjects.buffers

\* console.error(...)
consoleError(g) ==
  [g EXCEPT !.log = Append(@, Entry("error", 0, FALSE, 0, <<0, 0>>, <<0, 0>>))]

\* --------------------------------------------------------------- functions
\* createShader: [g, shader] with shader = TRUE when a compiled shader is returned
createShader(g, type, source, allocated) ==
  IF ~allocated
    THEN [g |-> consoleError(g), shader |-> FALSE]
    ELSE IF ~CompileStatus(type, source)
      \* created, then gl.deleteShader
      THEN [g |-> consoleError(g), shader |-> FALSE]
      ELSE [g |-> [g EXCEPT !.glObjects.shaders = @ + 1], shader |-> TRUE]

\* createProgram: [g, program] with program = 0 when null is returned
createProgram(g, vSource, fSource, d) ==
  LET v == createShader(g, "VERTEX", vSource, d # "vsNull")
      f == createShader(v.g, "FRAGMENT", fSource, d # "fsNull")
  IN  IF ~v.shader \/ ~f.shader
        THEN [g |-> f.g, program |-> 0]
        ELSE IF d = "progNull"
          THEN [g |-> consoleError(f.g), program |-> 0]
          ELSE IF ~LinkStatus(vSource, fSource)
            \* created, linked, then gl.deleteProgram
            THEN [g |-> [consoleError(f.g) EXCEPT !.glObjects.made = @ + 1],
                  program |-> 0]
            ELSE [g |-> [f.g EXCEPT !.glObjects.made = @ + 1,
                                    !.glObjects.programs = @ + 1],
                  program |-> f.g.glObjects.made + 1]

\* initShaders after "if (!newProgram) return": g is the state before the
\* build, g2 the state createProgram left
buildFailed(g, g2) ==
  [g2 EXCEPT !.log = Append(@,
     Entry("build", 0, FALSE, Live(g2) - Live(g),
           <<g.programRef.id, g.uTimeLocationRef>>,
           <<g2.programRef.id, g2.uTimeLocationRef>>))]

\* mutant: the handle is stored only when the lookup finds the uniform
bindProgramKeepsHandle(g, g2, program, vSource, fSource) ==
  LET loc == IF HasUTime(vSource, fSource) THEN program ELSE g2.uTimeLocationRef
  IN  [g2 EXCEPT
         !.programRef = [id |-> program, vs |-> vSource, fs |-> fSource],
         !.glObjects.used = program,
         !.glObjects.buffers = @ + 1,
         !.uTimeLocationRef = loc,
         !.log = Append(@, Entry("build", program, TRUE, 0,
                                 <<g.programRef.id, g.uTimeLocationRef>>,
                                 <<program, loc>>))]

\* mutant: a successful rebuild requests an animation frame of its own
bindProgramRequestsFrame(g, g2, program, vSource, fSource) ==
  LET loc == IF HasUTime(vSource, fSource) THEN program ELSE 0
  IN  [g2 EXCEPT
         !.programRef = [id |-> program, vs |-> vSource, fs |-> fSource],
         !.glObjects.used = program,
         !.glObjects.buffers = @ + 1,
         !.uTimeLocationRef = loc,
         !.raf = @ + 1,
         !.log = Append(@, Entry("build", program, TRUE, 0,
                                 <<g.programRef.id, g.uTimeLocationRef>>,
                                 <<program, loc>>))]

\* initShaders from "programRef.current = newProgram" to the end
bindProgram(g, g2, program, vSource, fSource) ==
  LET loc == IF HasUTime(vSource, fSource) THEN program ELSE 0
  IN  [g2 EXCEPT
         !.programRef = [id |-> program, vs |-> vSource, fs |-> fSource],
         !.glObjects.used = program,
         !.glObjects.buffers = @ + 1,
         !.uTimeLocationRef = loc,
         !.log = Append(@, Entry("build", program, TRUE, 0,
                                 <<g.programRef.id, g.uTimeLocationRef>>,
                                 <<program, loc>>))]

\* mutant: a failed rebuild empties the current-Program slot
initShadersDropsProgram(g, vSource, fSource, d) ==
  IF ~g.glRef
    THEN g
    ELSE
      LET r == createProgram(g, vSource, fSource, d)
      IN  IF r.program = 0
            THEN buildFailed(g, [r.g EXCEPT !.programRef = NullProgram,
                                            !.uTimeLocationRef = 0])
            ELSE bindProgram(g, r.g, r.program, vSource, fSource)

\* mutant: the guard on glRef.current is missing
initShadersNoGuard(g, vSource, fSource, d) ==
  LET r == createProgram(g, vSource, fSource, d)
  IN  IF r.program = 0
        THEN buildFailed(g, r.g)
        ELSE bindProgram(g, r.g, r.program, vSource, fSource)

initShaders(g, vSource, fSource, d) ==
  IF ~g.glRef
    THEN g
    ELSE
      LET r == createProgram(g, vSource, fSource, d)
      IN  IF r.program = 0
            THEN buildFailed(g, r.g)
            ELSE bindProgram(g, r.g, r.program, vSource, fSource)

\* mutant: without a time uniform the frame is not drawn
drawSkipsWithoutTime(g, clock) ==
  LET time == IF g.uTimeLocationRef # 0 THEN clock - g.startTimeRef ELSE -1
      g2   == [g EXCEPT !.glObjects.used = g.programRef.id]
  IN  IF g.uTimeLocationRef = 0
        THEN g
        ELSE [g2 EXCEPT
                !.lastTime = IF time # -1 THEN time ELSE @,
                !.log = Append(@, Entry("draw", g2.glObjects.used, TRUE, time,
                                        <<g.programRef.id, g.uTimeLocationRef>>,
                                        <<g.canvas.width, g.canvas.height>>))]

\* the body of renderFrame after its guard: "draw" records the program in
\* use at gl.drawArrays, the uniform value (-1: no gl.uniform1f call), the
\* refs read and the viewport
draw(g, clock) ==
  LET time == IF g.uTimeLocationRef # 0 THEN clock - g.startTimeRef ELSE -1
      g2   == [g EXCEPT !.glObjects.used = g.programRef.id]
  IN  [g2 EXCEPT
         !.lastTime = IF time # -1 THEN time ELSE @,
         !.log = Append(@, Entry("draw", g2.glObjects.used, TRUE, time,
                                 <<g.programRef.id, g.uTimeLocationRef>>,
                                 <<g.canvas.width, g.canvas.height>>))]

\* mutant: the next frame is requested inside the "if" of the time uniform
renderFrameInsideIf(g, clock) ==
  IF ~g.glRef \/ g.programRef.id = 0
    THEN g
    ELSE [draw(g, clock) EXCEPT !.raf = IF g.uTimeLocationRef # 0 THEN @ + 1 ELSE @]

\* mutant: the elapsed time is measured from the previous frame
renderFrameDeltaTime(g, clock) ==
  IF ~g.glRef \/ g.programRef.id = 0
    THEN g
    ELSE [draw(g, clock) EXCEPT !.raf = @ + 1, !.startTimeRef = clock]

renderFrame(g, clock) ==
  IF ~g.glRef \/ g.programRef.id = 0
    THEN g
    ELSE [draw(g, clock) EXCEPT !.raf = @ + 1]

\* the GL calls of renderFrame after which a thrown exception leaves a
\* different state: gl.viewport, gl.useProgram, gl.drawArrays
ThrowPoints == {"viewport", "useProgram", "drawArrays"}

\* renderFrame when the GL call "at" throws: no try/catch surrounds the
\* calls, so the statements after it, requestAnimationFrame included, do
\* not run; "throw" records the exception that leaves the callback
renderFrameThrows(g, clock, at) ==
  IF ~g.glRef \/ g.programRef.id = 0
    THEN g
    ELSE LET time == IF g.uTimeLocationRef # 0 THEN clock - g.startTimeRef ELSE -1
             g2   == IF at = "drawArrays"
                       THEN [g EXCEPT !.glObjects.used = g.programRef.id,
                                      !.lastTime = IF time # -1 THEN time ELSE @]
                       ELSE g
         IN  [g2 EXCEPT
                !.log = Append(@, Entry("throw", g2.glObjects.used, FALSE, -1,
                                        <<g.programRef.id, g.uTimeLocationRef>>,
                                        <<g.canvas.width, g.canvas.height>>))]

\* the cells written back to the variables
Store(g) ==
  /\ glRef' = g.glRef
  /\ programRef' = g.programRef
  /\ uTimeLocationRef' = g.uTimeLocationRef
  /\ startTimeRef' = g.startTimeRef
  /\ canvas' = g.canvas
  /\ raf' = g.raf
  /\ glObjects' = g.glObjects
  /\ lastTime' = g.lastTime
  /\ alerted' = g.alerted
  /\ log' = g.log

Room == glObjects.shaders + 2 <= MaxShaders

\* ----------------------------------------------------------------- actions
Init ==
  /\ phase = "init"
  /\ alerted = FALSE
  /\ vertexShader = DefaultVertex
  /\ fragmentShader = DefaultFragment
  /\ glRef = FALSE
  /\ programRef = NullProgram
  /\ uTimeLocationRef = 0
  /\ startTimeRef = 0
  /\ canvas = [width |-> 1, height |-> 1]
  /\ raf = 0
  /\ glObjects = [shaders |-> 0, programs |-> 0, buffers |-> 0, made |-> 0, used |-> 0]
  /\ now \in 0..MaxClock
  /\ lastTime = -1
  /\ download = NoFile
  /\ reads = EmptyBag
  /\ io = NoIo
  /\ log = <<>>

\* the effects of the first commit, in declaration order: WebGL
\* initialisation, shader recompile, canvas size (registers handleResize)
webglInit(g, acquired, w, h, clock, d) ==
  IF ~acquired
    THEN [g EXCEPT !.alerted = TRUE,
                   !.log = Append(@, Entry("alert", 0, FALSE, 0, <<0, 0>>, <<0, 0>>))]
    ELSE
      LET g1 == [g EXCEPT !.glRef = TRUE,
                          !.canvas = [width |-> w, height |-> h],
                          !.startTimeRef = clock]
      IN  renderFrame(initShaders(g1, vertexShader, fragmentShader, d), clock)

MountWith(contexts, dims, drivers) ==
  /\ phase = "init"
  /\ \E acquired \in contexts, w \in dims, h \in dims, d1 \in drivers, d2 \in drivers :
       Store(initShaders(webglInit(Cells, acquired, w, h, now, d1),
                         vertexShader, fragmentShader, d2))
  /\ phase' = "mounted"
  /\ io' = NoIo
  /\ UNCHANGED << vertexShader, fragmentShader, now, download, reads >>

\* mutant: the update is applied to both sources
setShaderBoth(slot, text, d) ==
  /\ vertexShader' = text
  /\ fragmentShader' = text
  /\ IF text = vertexShader /\ text = fragmentShader
       THEN Store(Cells)
       ELSE Store(initShaders(Cells, text, text, d))

\* mutant: the recompile effect runs a stale initShaders, which still sees
\* the sources of the render before the update
setShaderStale(slot, text, d) ==
  LET v == IF slot = "vertex" THEN text ELSE vertexShader
      f == IF slot = "fragment" THEN text ELSE fragmentShader
  IN  /\ vertexShader' = v
      /\ fragmentShader' = f
      /\ IF v = vertexShader /\ f = fragmentShader
           THEN Store(Cells)
           ELSE Store(initShaders(Cells, vertexShader, fragmentShader, d))

\* a state update followed by the recompile effect of the new render; React
\* skips the render when the value is the one the state already holds
setShader(slot, text, d) ==
  LET v == IF slot = "vertex" THEN text ELSE vertexShader
      f == IF slot = "fragment" THEN text ELSE fragmentShader
  IN  /\ vertexShader' = v
      /\ fragmentShader' = f
      /\ IF v = vertexShader /\ f = fragmentShader
           THEN Store(Cells)
           ELSE Store(initShaders(Cells, v, f, d))

Source(slot) == IF slot = "vertex" THEN vertexShader ELSE fragmentShader

\* textarea onChange
EditWith(texts, drivers) ==
  /\ phase = "mounted"
  /\ Room
  /\ \E slot \in Slots, text \in texts, d \in drivers :
       /\ text # Source(slot)
       /\ setShader(slot, text, d)
  /\ io' = NoIo
  /\ UNCHANGED << phase, now, download, reads >>

\* the requestAnimationFrame callback
Tick ==
  /\ raf > 0
  /\ Store(renderFrame([Cells EXCEPT !.raf = @ - 1], now))
  /\ io' = NoIo
  /\ UNCHANGED << phase, vertexShader, fragmentShader, now, download, reads >>

\* the requestAnimationFrame callback when one of its GL calls throws
TickThrows ==
  /\ raf > 0
  /\ glRef /\ programRef.id # 0
  /\ \E at \in ThrowPoints :
       Store(renderFrameThrows([Cells EXCEPT !.raf = @ - 1], now, at))
  /\ io' = NoIo
  /\ UNCHANGED << phase, vertexShader, fragmentShader, now, download, reads >>

AdvanceClock ==
  /\ now < MaxClock
  /\ now' = now + 1
  /\ Store(Cells)
  /\ io' = NoIo
  /\ UNCHANGED << phase, vertexShader, fragmentShader, download, reads >>

\* mutant: only the width follows the displayed size
handleResizeWidthOnly(g, clientWidth, clientHeight) ==
  LET c == [width |-> clientWidth, height |-> g.canvas.height]
  IN  [g EXCEPT !.canvas = c,
                !.log = Append(@, Entry("resize", 0, TRUE, 0,
                                        <<clientWidth, clientHeight>>,
                                        <<c.width, c.height>>))]

\* handleResize: "resize" records the displayed size and the size the canvas
\* has after the handler
handleResize(g, clientWidth, clientHeight) ==
  LET c == [width |-> clientWidth, height |-> clientHeight]
  IN  [g EXCEPT !.canvas = c,
                !.log = Append(@, Entry("resize", 0, TRUE, 0,
                                        <<clientWidth, clientHeight>>,
                                        <<c.width, c.height>>))]

\* window resize event while handleResize is registered
Resize ==
  /\ phase = "mounted"
  /\ \E w \in 1..MaxDim, h \in 1..MaxDim : Store(handleResize(Cells, w, h))
  /\ io' = NoIo
  /\ UNCHANGED << phase, vertexShader, fragmentShader, now, download, reads >>

\* the component is removed; the only effect cleanup removes handleResize
Unmount ==
  /\ phase = "mounted"
  /\ phase' = "unmounted"
  /\ Store(Cells)
  /\ io' = NoIo
  /\ UNCHANGED << vertexShader, fragmentShader, now, download, reads >>

\* "Save File" button: saveShader(source, filename)
saveShader(shaderCode, filename) == [name |-> filename, text |-> shaderCode]

Save ==
  /\ phase = "mounted"
  /\ \E slot \in Slots :
       /\ download' = saveShader(Source(slot), FileName(slot))
       /\ io' = [NoIo EXCEPT !.op = "save"]
  /\ Store(Cells)
  /\ UNCHANGED << phase, vertexShader, fragmentShader, now, reads >>

\* the files the user picks for a slot: a foreign file, or the last download
\* when it was saved from that slot
Pickable(slot, foreign) ==
  { [name |-> "foreign", bytes |-> b, text |-> <<>>] : b \in foreign }
  \cup (IF download.name # FileName(slot) THEN {}
        ELSE { [name |-> download.name, bytes |-> BlobBytes(download.text),
                text |-> download.text] })

\* mutant: the file content is written to the source when the read starts
LoadStartEager(foreign) ==
  /\ phase = "mounted"
  /\ BagCardinality(reads) < MaxReads
  /\ \E slot \in Slots : \E f \in Pickable(slot, foreign) :
       /\ reads' = reads (+) SetToBag({[slot |-> slot, name |-> f.name,
                                        bytes |-> f.bytes, text |-> f.text]})
       /\ io' = [NoIo EXCEPT !.op = "start"]
       /\ IF ReadAsText(f.bytes) # <<>> /\ Room
            THEN setShader(slot, ReadAsText(f.bytes), "ok")
            ELSE /\ Store(Cells)
                 /\ UNCHANGED << vertexShader, fragmentShader >>
  /\ UNCHANGED << phase, now, download >>

\* file input onChange: loadShaderFromFile up to reader.readAsText(file)
LoadStartWith(foreign) ==
  /\ phase = "mounted"
  /\ BagCardinality(reads) < MaxReads
  /\ \E slot \in Slots : \E f \in Pickable(slot, foreign) :
       /\ reads' = reads (+) SetToBag({[slot |-> slot, name |-> f.name,
                                        bytes |-> f.bytes, text |-> f.text]})
       /\ io' = [NoIo EXCEPT !.op = "start"]
  /\ Store(Cells)
  /\ UNCHANGED << phase, vertexShader, fragmentShader, now, download >>

\* reader.onload; a state update of an unmounted component is dropped
onload(r, result, d) ==
  IF result # <<>> /\ phase = "mounted"
    THEN setShader(r.slot, result, d)
    ELSE /\ Store(Cells)
         /\ UNCHANGED << vertexShader, fragmentShader >>

LoadCompleteWith(drivers) ==
  /\ \E r \in BagToSet(reads), d \in drivers :
       LET result == ReadAsText(r.bytes)
       IN  /\ (result # <<>> /\ result # Source(r.slot) /\ phase = "mounted") => Room
           /\ onload(r, result, d)
           /\ reads' = reads (-) SetToBag({r})
           /\ io' = [op |-> "load", slot |-> r.slot, name |-> r.name, text |-> r.text,
                     result |-> result,
                     wrote |-> (result # <<>> /\ phase = "mounted")]
  /\ UNCHANGED << phase, now, download >>

\* the read fails: onload is not called and no onerror handler is set
LoadFail ==
  /\ \E r \in BagToSet(reads) :
       /\ reads' = reads (-) SetToBag({r})
       /\ io' = [op |-> "fail", slot |-> r.slot, name |-> r.name, text |-> r.text,
                 result |-> <<>>, wrote |-> FALSE]
  /\ Store(Cells)
  /\ UNCHANGED << phase, vertexShader, fragmentShader, now, download >>

\* ---------------------------------------------------------- specifications
\* the rendering core: every driver outcome and every text, ticks, resizes
\* and the unmount
Mount == MountWith(BOOLEAN, 1..MaxDim, Driver)
Edit == EditWith(EditTexts, Driver)

Next == Mount \/ Edit \/ Tick \/ Resize \/ Unmount

Spec == Init /\ [][Next]_vars

\* the file adapters: saves and loads interleaved with edits and ticks, on a
\* driver that allocates every object and a canvas of fixed size
FileTexts == { <<>>, <<"B", "C">> }
MountF == MountWith({TRUE}, {1}, {"ok"})
EditF == EditWith(FileTexts, {"ok"})
LoadStartF == LoadStartWith({})
LoadComplete == LoadCompleteWith({"ok"})

InitFiles == Init /\ now = 0
NextFiles == MountF \/ EditF \/ Save \/ LoadStartF \/ LoadComplete \/ LoadFail \/ Tick

SpecFiles == InitFiles /\ [][NextFiles]_vars

\* the whole life of the component with a running clock: every handler but
\* saveShader, on two texts and two driver outcomes; no file was saved, so
\* the loads read foreign files
LifeTexts == { <<"X">>, <<"C">> }
LifeDriver == {"ok", "vsNull"}
MountL == MountWith(BOOLEAN, 1..MaxDim, LifeDriver)
EditL == EditWith(LifeTexts, LifeDriver)
LoadStart == LoadStartWith(ForeignFiles)
LoadCompleteL == LoadCompleteWith(LifeDriver)

NextLife ==
  \/ MountL \/ EditL \/ Tick \/ AdvanceClock \/ Resize \/ Unmount
  \/ LoadStart \/ LoadCompleteL \/ LoadFail

SpecLife == Init /\ [][NextLife]_vars

\* the render loop on a driver whose calls can throw: edits, resizes and
\* ticks on an acquired context
EditT == EditWith(LifeTexts, {"ok"})

NextThrow == MountF \/ EditT \/ Tick \/ TickThrows \/ Resize

SpecThrow == InitFiles /\ [][NextThrow]_vars

\* ------------------------------------------------------------------ claims
Builds == { i \in 1..Len(log) : log[i].op = "build" }
Draws  == { i \in 1..Len(log) : log[i].op = "draw" }
\* the step was one animation frame callback that drew
TickDrew == Len(log) = 1 /\ log[1].op = "draw"
\* the current Program was built from sources older than the present ones
LastGood ==
  /\ programRef.id # 0
  /\ (programRef.vs # vertexShader \/ programRef.fs # fragmentShader)

\* C1: last-good-program policy. Whenever a Program P is current and a
\* rebuild fails (a shader does not compile, the link fails, the driver
\* returns no object), the current-Program slot and the time-uniform handle
\* after the rebuild are exactly what they were before it, every draw call
\* is issued with the Program the slot held when the frame began, and a
\* render tick draws with the Program that is still current.
C1_LastGoodProgram ==
  /\ \A i \in Builds :
       (~log[i].ok /\ log[i].pre[1] # 0) => log[i].post = log[i].pre
  /\ \A i \in Draws : log[i].prog = log[i].pre[1]
  /\ TickDrew => (log[1].prog = programRef.id /\ log[1].pre[2] = uTimeLocationRef)

\* a tick has drawn with the last good Program while the sources do not build
C1_Witness == TickDrew /\ LastGood /\ log[1].prog = programRef.id

\* C2: on a mounted surface with an acquired context, once a rebuild has
\* succeeded the new Program is current and a render tick is scheduled to
\* draw with it, whatever the earlier rebuilds did.
C2_RebuildReachesRender ==
  (phase = "mounted" /\ glRef /\ \E i \in Builds : log[i].ok)
    => (programRef.id # 0 /\ raf > 0)

\* C3: the render loop does not stop by itself. While the surface is
\* mounted at most one tick is pending, and once one tick is pending every
\* step that leaves the surface mounted (a tick in particular) leaves
\* exactly one tick pending.
C3_LoopKeepsRunning ==
  /\ [](phase = "mounted" => raf <= 1)
  /\ [][(phase = "mounted" /\ phase' = "mounted" /\ raf = 1) => raf' = 1]_vars

\* a tick ran on the mounted surface and the next one is scheduled
C3_Witness == phase = "mounted" /\ TickDrew /\ raf = 1

\* C4: after the surface is torn down no tick is pending, and no step
\* issues a graphics call.
C4_TeardownWithdrawsTick == phase = "unmounted" => (raf = 0 /\ log = <<>>)

\* C5: the driver objects that are allocated and not deleted are at most
\* one program, two shaders and one buffer.
C5_BoundedDriverObjects ==
  /\ glObjects.programs <= 1
  /\ glObjects.shaders <= 2
  /\ glObjects.buffers <= 1

\* C6: a build that aborts has released every driver object it allocated
\* by the time it returns.
C6_AbortedBuildReleasesAll == \A i \in Builds : ~log[i].ok => log[i].n = 0

\* C7: ClockOrigin is written at surface initialisation only: no step after
\* the mount (edit, rebuild, file load, resize, tick) changes it; and each
\* value passed to the time uniform is at least the value passed before it,
\* also across a failed rebuild.
C7_ClockOrigin ==
  [][ /\ phase # "init" => startTimeRef' = startTimeRef
      /\ \A i \in 1..Len(log') :
           (log'[i].op = "draw" /\ log'[i].n # -1 /\ lastTime # -1)
             => log'[i].n >= lastTime ]_vars

\* a later tick passed a larger elapsed time, measured from a non-zero
\* origin, after the sources stopped building
C7_Witness ==
  /\ TickDrew /\ log[1].n > 0 /\ log[1].n = now - startTimeRef
  /\ startTimeRef > 0 /\ LastGood

\* C8: when the load of a file that saveShader wrote from a slot completes
\* on that slot, the slot holds the text that was saved.
C8_SaveLoadRoundTrip ==
  (io.op = "load" /\ io.name = FileName(io.slot)) => Source(io.slot) = io.text

\* C9: a step of loadShaderFromFile (start of the read, its completion, its
\* failure) on one slot leaves the source of the other slot unchanged.
C9_LoadFrame ==
  [][ /\ io'.op = "start" =>
           (vertexShader' = vertexShader /\ fragmentShader' = fragmentShader)
      /\ (io'.op \in {"load", "fail"} /\ io'.slot = "vertex") =>
           fragmentShader' = fragmentShader
      /\ (io'.op \in {"load", "fail"} /\ io'.slot = "fragment") =>
           vertexShader' = vertexShader ]_vars

\* a load replaced the vertex source while another load was pending and the
\* fragment source holds a different text
C9_Witness ==
  /\ io.op = "load" /\ io.wrote /\ io.slot = "vertex"
  /\ vertexShader = ReadAsText(BlobBytes(io.text))
  /\ fragmentShader # vertexShader
  /\ reads # EmptyBag

\* C10: when no drawing context was acquired at mount the user was alerted,
\* and in every later state no driver object exists, no Program is current,
\* no tick is scheduled and no step builds or draws.
C10_NoContextNoRendering ==
  (phase # "init" /\ ~glRef) =>
    /\ alerted
    /\ glObjects = [shaders |-> 0, programs |-> 0, buffers |-> 0, made |-> 0, used |-> 0]
    /\ programRef = NullProgram /\ uTimeLocationRef = 0
    /\ raf = 0
    /\ \A i \in 1..Len(log) : log[i].op \in {"alert", "resize"}

\* without a context, a file load has replaced a source
C10_Witness == phase = "mounted" /\ ~glRef /\ alerted /\ io.op = "load" /\ io.wrote

\* the step was a window resize
Resized == Len(log) = 1 /\ log[1].op = "resize"

\* C11: a resize to the displayed size W x H sets the canvas to W x H, with
\* no rebuild and no change of the current Program, of ClockOrigin or of the
\* sources; and a render tick sets its viewport to the size the canvas has,
\* that of the last resize.
C11_ResizeViewport ==
  /\ [](Resized =>
          /\ log[1].post = log[1].pre
          /\ canvas = [width |-> log[1].pre[1], height |-> log[1].pre[2]])
  /\ [](TickDrew => log[1].post = <<canvas.width, canvas.height>>)
  /\ [][Resized' =>
          /\ programRef' = programRef /\ uTimeLocationRef' = uTimeLocationRef
          /\ startTimeRef' = startTimeRef /\ glObjects' = glObjects
          /\ vertexShader' = vertexShader /\ fragmentShader' = fragmentShader
          /\ raf' = raf]_vars

\* a resize to 1 x 2 on a surface that renders
C11_Witness ==
  /\ Resized /\ log[1].pre = <<1, 2>> /\ canvas = [width |-> 1, height |-> 2]
  /\ programRef.id # 0 /\ raf = 1

\* C12: once a Program is current the slot is never empty again; the
\* time-uniform handle is null or belongs to the current Program, and is
\* non-null exactly when that Program declares the uniform; every draw call
\* uses the Program of the slot and a handle that is null or resolved from it.
C12_GenerationConsistency ==
  /\ [](programRef.id # 0 =>
          uTimeLocationRef =
            (IF HasUTime(programRef.vs, programRef.fs) THEN programRef.id ELSE 0))
  /\ [](programRef.id = 0 => uTimeLocationRef = 0)
  /\ [](\A i \in Draws :
          /\ log[i].pre[1] # 0 /\ log[i].prog = log[i].pre[1]
          /\ log[i].pre[2] \in {0, log[i].pre[1]})
  /\ [][programRef.id # 0 => programRef'.id # 0]_vars

\* a tick drew with a Program without the uniform that replaced one with it
C12_Witness ==
  /\ TickDrew /\ programRef.id > 2 /\ uTimeLocationRef = 0
  /\ log[1].pre = <<programRef.id, 0>>

\* the driver compiles and links the pair
Buildable(vSource, fSource) ==
  /\ CompileStatus("VERTEX", vSource)
  /\ CompileStatus("FRAGMENT", fSource)
  /\ LinkStatus(vSource, fSource)

\* C13: on a driver that allocates every object, every step that changes a
\* source (keystroke or completed load) runs exactly one rebuild, of the pair
\* of sources the step leaves: when that pair builds, the current Program is
\* a new one made from it, otherwise the current Program is kept. Hence on
\* the mounted surface the current Program is made from the present pair
\* when it builds, and from an earlier pair that builds when it does not.
C13_RebuildUsesCurrentSources ==
  /\ [](phase = "mounted" =>
          IF Buildable(vertexShader, fragmentShader)
            THEN programRef.vs = vertexShader /\ programRef.fs = fragmentShader
            ELSE programRef.id # 0 /\ Buildable(programRef.vs, programRef.fs))
  /\ [][(vertexShader' # vertexShader \/ fragmentShader' # fragmentShader) =>
          /\ Cardinality(Builds') = 1
          /\ IF Buildable(vertexShader', fragmentShader')
               THEN /\ programRef'.id > programRef.id
                    /\ programRef'.vs = vertexShader'
                    /\ programRef'.fs = fragmentShader'
               ELSE programRef' = programRef]_vars

\* a completed load replaced the fragment source and the Program in use is
\* a new one made from the loaded text
C13_Witness ==
  /\ io.op = "load" /\ io.wrote /\ io.slot = "fragment"
  /\ fragmentShader = <<"C">> /\ programRef.fs = <<"C">> /\ programRef.id > 2
  /\ Cardinality(Builds) = 1

\* a GL call of the tick threw
Threw == Len(log) = 1 /\ log[1].op = "throw"

\* C14: when a graphics call of a tick throws, the exception does not leave
\* the tick and the next tick is still scheduled.
C14_TickExceptionSafe == Threw => raf = 1

\* C15: when the current Program has no time uniform, a tick makes no
\* uniform update (n = -1, the last uniform value is kept), still draws with
\* the current Program and leaves exactly the tick it requested pending.
C15_AbsentTimeUniform ==
  /\ []((TickDrew /\ log[1].pre[2] = 0) =>
          /\ log[1].n = -1
          /\ log[1].prog = programRef.id
          /\ glObjects.used = programRef.id)
  /\ [][(Tick /\ programRef.id # 0 /\ uTimeLocationRef = 0) =>
          /\ TickDrew'
          /\ log'[1].pre = <<programRef.id, 0>>
          /\ raf' = raf
          /\ lastTime' = lastTime]_vars

\* a tick drew with a Program that has no time uniform and requested the
\* next tick
C15_Witness ==
  /\ TickDrew /\ uTimeLocationRef = 0 /\ log[1].n = -1 /\ raf = 1
  /\ ~HasUTime(programRef.vs, programRef.fs) /\ phase = "mounted"

\* C16: starting a read changes no source and no Program and runs no
\* rebuild; while a read is pending a tick is pending, and every tick draws
\* with the current Program and leaves the read pending; a source is written
\* by a load only in the step of its completion callback.
C16_PendingLoadIsInert ==
  /\ [][io'.op = "start" =>
          /\ vertexShader' = vertexShader /\ fragmentShader' = fragmentShader
          /\ programRef' = programRef /\ uTimeLocationRef' = uTimeLocationRef
          /\ glObjects' = glObjects /\ raf' = raf
          /\ log' = <<>>
          /\ BagCardinality(reads') = BagCardinality(reads) + 1]_vars
  /\ []((phase = "mounted" /\ reads # EmptyBag) => raf = 1 /\ programRef.id # 0)
  /\ [][(Tick /\ reads # EmptyBag) =>
          /\ TickDrew' /\ log'[1].prog = programRef.id
          /\ programRef' = programRef /\ raf' = raf
          /\ reads' = reads]_vars
  /\ [][(vertexShader' # vertexShader \/ fragmentShader' # fragmentShader) =>
          \/ io'.op = "none" /\ reads' = reads
          \/ /\ io'.op = "load" /\ io'.wrote
             /\ io'.result = (IF io'.slot = "vertex" THEN vertexShader' ELSE fragmentShader')
             /\ BagCardinality(reads') = BagCardinality(reads) - 1]_vars

\* a tick drew while a read was pending
C16_Witness ==
  /\ reads # EmptyBag /\ TickDrew /\ raf = 1
  /\ log[1].prog = programRef.id /\ io.op = "none"

\* C17: a failed file read leaves both sources and the current Program
\* unchanged, runs no rebuild, leaves the pending tick pending, and writes a
\* log entry.
C17_FailedReadIsLogged ==
  io.op = "fail" => (Builds = {} /\ \E i \in 1..Len(log) : log[i].op = "error")

\* C18: a rebuild on the mounted surface, successful or failed, leaves the
\* number of pending ticks as it was; in every state at most one tick is
\* pending, and no step draws more than once; the mount draws once exactly
\* when it leaves a tick pending.
C18_SingleLoop ==
  /\ [](raf \in {0, 1} /\ Cardinality(Draws) <= 1)
  /\ [][(phase = "mounted" /\ Builds' # {}) =>
          (raf' = raf /\ Draws' = {})]_vars
  /\ [][(phase = "init" /\ Builds' # {}) =>
          (raf' \in {0, 1} /\ Cardinality(Draws') = raf')]_vars

\* a rebuild after the mount made a new Program while one tick was pending,
\* and one tick is pending after it
C18_Witness ==
  /\ phase = "mounted" /\ raf = 1 /\ programRef.id > 2
  /\ Cardinality(Builds) = 1 /\ \A i \in Builds : log[i].ok /\ log[i].pre[1] # 0

\* C19: when a load completes on the mounted component, being the last
\* event on its slot, the slot holds the content of the file read.
C19_LastCompletionWins ==
  (io.op = "load" /\ phase = "mounted" /\ fragmentShader # vertexShader) =>
    (IF io.slot = "vertex" THEN vertexShader ELSE fragmentShader) = io.result

====
